---- MODULE Spec2Model ----
(***************************************************************************)
(* Model of the automated trading cycle of the Binance command-line bot:   *)
(* trading-loop.js (pricing, sizing, sell order, supervision, history) and *)
(* order-monitor.js (event-driven supervision of one order).               *)
(*                                                                         *)
(* Units.  JavaScript numbers are modelled by exact decimal fixed point:   *)
(*   price      in cents            (0.01 quote units)                     *)
(*   quantity   in micro units      (0.000001 base units; a lot = 10)      *)
(*   fixed profit amount in mills   (0.001 quote units)                    *)
(*   percentages in basis points    (0.01 percent)                         *)
(* Products of these exceed 32 bits, so intermediate values are kept as    *)
(* wide naturals (little-endian sequences of base-10000 limbs) and as      *)
(* fractions <<numerator, denominator>> of wide naturals.  toFixed(2) is   *)
(* rounding of the exact value to the nearest cent, ties upward.           *)
(***************************************************************************)
EXTENDS Integers, Sequences, FiniteSets, TLC

(***************************************************************************)
(* Wide naturals.                                                          *)
(***************************************************************************)
RECURSIVE WFromInt(_)
WFromInt(n) ==
  IF n = 0 THEN <<>> ELSE <<n % 10000>> \o WFromInt(n \div 10000)

RECURSIVE WToInt(_)
WToInt(x) ==
  IF x = <<>> THEN 0 ELSE Head(x) + 10000 * WToInt(Tail(x))

RECURSIVE WAddC(_, _, _)
WAddC(x, y, c) ==
  IF x = <<>> /\ y = <<>>
    THEN (IF c = 0 THEN <<>> ELSE <<c>>)
    ELSE LET a == IF x = <<>> THEN 0 ELSE Head(x)
             b == IF y = <<>> THEN 0 ELSE Head(y)
             s == a + b + c
         IN  <<s % 10000>> \o
             WAddC(IF x = <<>> THEN <<>> ELSE Tail(x),
                   IF y = <<>> THEN <<>> ELSE Tail(y),
                   s \div 10000)

WAdd(x, y) == WAddC(x, y, 0)

RECURSIVE WMulSmallC(_, _, _)
WMulSmallC(x, k, c) ==
  IF x = <<>>
    THEN WFromInt(c)
    ELSE LET s == Head(x) * k + c
         IN  <<s % 10000>> \o WMulSmallC(Tail(x), k, s \div 10000)

WShift(x) == IF x = <<>> THEN <<>> ELSE <<0>> \o x

RECURSIVE WMul(_, _)
WMul(x, y) ==
  IF x = <<>> \/ y = <<>>
    THEN <<>>
    ELSE WAdd(IF Head(y) = 0 THEN <<>> ELSE WMulSmallC(x, Head(y), 0),
              WShift(WMul(x, Tail(y))))

RECURSIVE WLessFrom(_, _, _)
WLessFrom(x, y, i) ==
  IF i = 0 THEN FALSE
  ELSE IF x[i] # y[i] THEN x[i] < y[i]
  ELSE WLessFrom(x, y, i - 1)

WLess(x, y) ==
  IF Len(x) # Len(y) THEN Len(x) < Len(y) ELSE WLessFrom(x, y, Len(x))

WLeq(x, y) == ~WLess(y, x)

\* floor(x / y) for y > 0 and a quotient below 2^30, by bisection on lo*y <= x < hi*y
RECURSIVE WDivSearch(_, _, _, _)
WDivSearch(x, y, lo, hi) ==
  IF hi - lo <= 1 THEN lo
  ELSE LET mid == (lo + hi) \div 2
       IN  IF WLeq(WMul(y, WFromInt(mid)), x)
             THEN WDivSearch(x, y, mid, hi)
             ELSE WDivSearch(x, y, lo, mid)

WDiv(x, y) == WDivSearch(x, y, 0, 1073741824)

W(n) == WFromInt(n)

(***************************************************************************)
(* Fractions of wide naturals.  A zero denominator with a positive         *)
(* numerator is JavaScript's Infinity; comparison by cross-multiplication  *)
(* orders it above every finite value.                                     *)
(***************************************************************************)
Frac(n, d) == <<n, d>>

FracLess(a, b) == WLess(WMul(a[1], b[2]), WMul(b[1], a[2]))

MathMax(a, b) == IF FracLess(a, b) THEN b ELSE a

MathMin(a, b) == IF FracLess(b, a) THEN b ELSE a

\* Number.prototype.toFixed(2) of a value held in cents: the nearest cent
toFixed2(a) == WDiv(WAdd(WMul(W(2), a[1]), a[2]), WMul(W(2), a[2]))

(***************************************************************************)
(* State.                                                                  *)
(***************************************************************************)
VARIABLES
  calcIn,        \* arguments of one calculateProfitPrice call
  calcOut,       \* its return value in cents, NoPrice before the call
  pc,            \* position of tradingLoop
  cfg,           \* the options given on the command line
  dryRun,        \* let dryRun
  buyAmount,     \* let buyAmount, in units of 0.0001 quote
  baseBalance,   \* options.baseBalance
  skipBuyStep,   \* options.skipBuyStep (undefined reads as false)
  cycle,         \* let cycle
  buyQuantity,   \* let buyQuantity of the current cycle
  buyPrice,      \* let buyPrice of the current cycle, in cents
  sellPrice,     \* const sellPrice of the current cycle, in cents
  finalQuantity, \* let finalQuantity of the current cycle, in micro units
  tradeData,     \* the record handed to saveToHistory
  sellOrder,     \* the order-trade.js command of the current cycle and its answer
  buyCommand,    \* the market-buy.js command of the current cycle
  highestPrice,  \* monitorOrderWithPriceTracking: let highestPrice
  orderStatus,   \* monitorOrderWithPriceTracking: let orderStatus
  lastPoll,      \* what the last iteration of the guard loop read and did
  history,       \* the trade_*.json files written, oldest first
  statsWrites,   \* number of trading_stats_*.json files written
  errorRecords,  \* number of error_*.json files written
  lastError,     \* what the catch block of tradingLoop caught
  exitCode,      \* the exit code of the node process, NoExit while it runs
  quoteBalance,  \* const quoteBalance of the checks before the loop (lines 543, 706)
  order,         \* the order as the exchange holds it: status and executed quantity
  mpc,           \* position of monitorOrderStatus
  lastStatus,    \* monitorOrderStatus: let lastStatus
  lastExecutedQty, \* monitorOrderStatus: let lastExecutedQty
  sockets,       \* every WebSocket created, oldest first: state, creator, listen key
  ws,            \* monitorOrderStatus: let ws, an index of sockets (0: none yet)
  listenKey,     \* monitorOrderStatus: let listenKey, the number of the key (0: none)
  keepAliveInterval, \* the keep-alive timer is scheduled
  keepAlive,     \* the position of the keep-alive callback in flight
  reconnecting,  \* the close handler of the first socket is awaiting getListenKey
  reconnectAttempts, \* monitorOrderStatus: let reconnectAttempts
  lastEvent,     \* the last message a message handler of the monitor was called with
  runs,          \* number of trading runs that record cycles of the symbol
  statsFiles,    \* the trading_stats_*.json files of the symbol, oldest first
  writer,        \* per run: the position of its updateTradingStats call and its locals
  sizeIn,        \* the balances, amounts and flags a sizing decision is taken on
  sizeOut,       \* the results of the sizing decisions taken on sizeIn, in order
  gpc,           \* position of a sell order on its way to the exchange
  sellIn,        \* the buy price, stop-loss settings, sell price and mode of the order
  sellArgs,      \* the arguments tradingLoop passes to order-trade.js
  orderParams,   \* const orderParams of main in order-trade.js
  orderRequest   \* the query of the POST /api/v3/order request of createOrder

calcVars == <<calcIn, calcOut>>

loopVars ==
  <<pc, cfg, dryRun, buyAmount, baseBalance, skipBuyStep, cycle, buyQuantity, buyPrice,
    sellPrice, finalQuantity, tradeData, sellOrder, buyCommand, highestPrice, orderStatus,
    lastPoll, history, statsWrites, errorRecords, lastError, exitCode,
    quoteBalance>>

monVars ==
  <<order, mpc, lastStatus, lastExecutedQty, sockets, ws, listenKey, keepAliveInterval,
    keepAlive, reconnecting, reconnectAttempts, lastEvent>>

statVars == <<runs, statsFiles, writer>>

sizeVars == <<sizeIn, sizeOut>>

gwVars == <<gpc, sellIn, sellArgs, orderParams, orderRequest>>

vars == <<calcVars, loopVars, monVars, statVars, sizeVars, gwVars>>

NoPrice == 0 - 1

NoExit == 0 - 1

\* The messages of the user data stream.  i, c and s tell whether event.i equals
\* parseInt(orderId), event.c equals clientOrderId and event.s equals symbol.
NoEvent == [e |-> "none", i |-> "other", c |-> "other", s |-> "other",
            status |-> "NONE", executed |-> 0]

(***************************************************************************)
(* trading-loop.js: calculateProfitPrice.                                  *)
(*                                                                         *)
(* A quantity argument is null, a number, or the string that               *)
(* extractBuyQuantity returns; `if (quantity)` is false for null and for   *)
(* the number 0 and true for every such string (also for "0.00000").       *)
(* profitSettings.value is in mills for type "fixed" and in basis points   *)
(* for type "percent".                                                     *)
(***************************************************************************)
QNull == [kind |-> "null", v |-> 0]
QNum(v) == [kind |-> "num", v |-> v]
QStr(v) == [kind |-> "str", v |-> v]

Truthy(q) == q.kind = "str" \/ (q.kind = "num" /\ q.v # 0)

buyFeeRate == 1        \* per mille
sellFeeRate == 1       \* per mille
totalFeeRate == buyFeeRate + sellFeeRate

\* a floor of 0.5% and a ceiling of 6%: the bounds proved below tell them from the
\* floor and the ceiling of the code
looseFloor(price) == Frac(WMul(W(price), W(1005)), W(1000))
looseCeiling(price) == Frac(WMul(W(price), W(1060)), W(1000))

\* price * 1.015 and price * 1.05, in cents
minProfitablePrice(price) == Frac(WMul(W(price), W(1015)), W(1000))
maxProfitablePrice(price) == Frac(WMul(W(price), W(1050)), W(1000))

\* the fixed branch with a quantity: every term scaled by 1000 * cents * micro units
fixedSellPrice(price, value, quantityNum) ==
  LET buyCost == WMul(WMul(W(price), W(quantityNum)), W(1000))
      buyFee == WMul(WMul(W(price), W(quantityNum)), W(buyFeeRate))
      targetProfit == WMul(W(value), W(100000000))
  IN  Frac(WAdd(WAdd(buyCost, buyFee), targetProfit),
           WMul(W(quantityNum), W(1000 - sellFeeRate)))

\* the fixed branch without a quantity: price * (1 + 0.015 + totalFeeRate) + value
fallbackSellPrice(price, value) ==
  Frac(WAdd(WMul(W(price), W(1000 + 15 + totalFeeRate)), WMul(W(value), W(100))),
       W(1000))

\* Math.min(Math.max(profitPercent, 0.015), 0.05), in basis points
unclampedProfit(value) == value

effectiveProfit(value) ==
  LET minProfitPercentage == 150
      maxProfitPercentage == 500
      m == IF value > minProfitPercentage THEN value ELSE minProfitPercentage
  IN  IF m < maxProfitPercentage THEN m ELSE maxProfitPercentage

\* the percent branch: price * (1 + effectiveProfit + buyFeeRate) / (1 - sellFeeRate)
percentSellPrice(price, value) ==
  Frac(WMul(WMul(W(price), W(10000 + effectiveProfit(value) + 10 * buyFeeRate)), W(1000)),
       WMul(W(10000), W(1000 - sellFeeRate)))

calculateProfitPrice(aBuyPrice, aProfitSettings, aQuantity) ==
  IF aProfitSettings.type = "fixed"
    THEN IF Truthy(aQuantity)
           THEN toFixed2(MathMin(MathMax(fixedSellPrice(aBuyPrice, aProfitSettings.value, aQuantity.v),
                                         minProfitablePrice(aBuyPrice)),
                                 maxProfitablePrice(aBuyPrice)))
           ELSE toFixed2(fallbackSellPrice(aBuyPrice, aProfitSettings.value))
  ELSE IF aProfitSettings.type = "percent"
    THEN toFixed2(percentSellPrice(aBuyPrice, aProfitSettings.value))
  ELSE toFixed2(Frac(WMul(W(aBuyPrice), W(1000 + 15 + totalFeeRate)), W(1000)))

(***************************************************************************)
(* trading-loop.js: tradingLoop.  Every executeCommand call is a child     *)
(* process whose outcome the environment chooses: it exits with code 0 and *)
(* some output, or with another code, and then executeCommand rejects.     *)
(***************************************************************************)
minimumOrderValue == 100000   \* 10 quote units, in units of 0.0001
minBaseQuantity == 500        \* 0.0005 base units, in micro units
fallbackPrice == 2000000      \* '20000', in cents
fallbackQuantity == 1000      \* '0.001', in micro units
lotStep == 10                 \* 0.00001 base units, in micro units

NoOrder ==
  [placed |-> FALSE, quantity |-> 0, price |-> 0, dryRun |-> FALSE, response |-> "none"]

NoBuy == [kind |-> "none", amount |-> 0]
NoPoll == [status |-> "NONE", price |-> 0, peak |-> 0, cancel |-> FALSE, stopped |-> FALSE]
NoTrade == [cycle |-> 0, status |-> "NONE", sold |-> FALSE]

\* account-info.js --balance: a row per asset with a positive balance (0: no row)
BaseBalances == {0, 125, 730, 735}
QuoteBalances == {0, 50, 6900, 150000}
BalanceFailed == [ok |-> FALSE, base |-> 0, quote |-> 0]
BalanceResults ==
  [ok : {TRUE}, base : BaseBalances, quote : QuoteBalances] \cup {BalanceFailed}

\* prices the exchange reports, in cents
MarketPrices == {8282275, 9500000}
GuardPrices == {8200000, 8250000, 8300000}

MaxCycles == 2

priceDropOff == [enabled |-> FALSE, absolute |-> 0, percentage |-> 100]

\* the parsed command line.  forceDryRun is read only under buyAmount below the minimum
\* (line 552) and the price drop settings only when the run starts live (line 1192),
\* so the other combinations behave as the ones listed
Configs ==
  {c \in [skipBalanceCheck : BOOLEAN,
          dryRun : BOOLEAN,
          forceDryRun : BOOLEAN,
          cycles : 1 .. MaxCycles,
          buyAmount : {69, 100000, 200000},
          profitSettings : {[type |-> "fixed", value |-> 1],
                            [type |-> "percent", value |-> 300]},
          priceDropSettings : {priceDropOff,
                               [enabled |-> TRUE, absolute |-> 0, percentage |-> 100],
                               [enabled |-> TRUE, absolute |-> 40000, percentage |-> 100]}] :
     /\ c.forceDryRun => c.buyAmount < minimumOrderValue
     /\ c.dryRun => c.priceDropSettings = priceDropOff}

\* Number.prototype.toFixed(2) of a quote amount held in units of 0.0001
toFixed2Quote(a) == ((a + 50) \div 100) * 100

\* Number.prototype.toFixed(5) of a quantity held in micro units
toFixed5(q) == ((q + 5) \div lotStep) * lotStep

\* the exchange fills a quoteOrderQty market buy in whole lots
marketFill(amount, price) == ((amount * 1000) \div price) * lotStep

perCycleVars ==
  <<buyQuantity, buyPrice, sellPrice, finalQuantity, tradeData, sellOrder, buyCommand>>

guardVars == <<highestPrice, orderStatus, lastPoll>>

filesVars == <<history, statsWrites, errorRecords>>

\* lines 523-574: the minimum buy amount check
MinimumBuyAmountCheck ==
  /\ pc = "start"
  /\ IF buyAmount < minimumOrderValue
       THEN IF ~cfg.skipBalanceCheck
              THEN \E r \in BalanceResults :
                     /\ quoteBalance' = IF r.ok /\ r.quote # 0 THEN QNum(r.quote)
                                        ELSE QNull
                     /\ IF ~r.ok
                          THEN /\ buyAmount' = minimumOrderValue
                               /\ UNCHANGED dryRun
                               /\ pc' = "balance"
                        ELSE IF r.quote = 0
                          THEN /\ UNCHANGED <<buyAmount, dryRun>>
                               /\ pc' = "balance"
                        ELSE IF r.quote >= minimumOrderValue
                          THEN /\ buyAmount' = toFixed2Quote(IF r.quote < minimumOrderValue
                                                               THEN r.quote
                                                               ELSE minimumOrderValue)
                               /\ UNCHANGED dryRun
                               /\ pc' = "balance"
                        ELSE IF r.quote >= buyAmount
                          THEN /\ dryRun' = TRUE
                               /\ UNCHANGED buyAmount
                               /\ pc' = "balance"
                        ELSE IF cfg.forceDryRun
                          THEN /\ dryRun' = TRUE
                               /\ buyAmount' = minimumOrderValue
                               /\ pc' = "balance"
                        ELSE /\ UNCHANGED <<buyAmount, dryRun>>
                             /\ pc' = "catch"
              ELSE /\ buyAmount' = minimumOrderValue
                   /\ UNCHANGED <<dryRun, quoteBalance>>
                   /\ pc' = "balance"
       ELSE /\ UNCHANGED <<buyAmount, dryRun, quoteBalance>>
            /\ pc' = "balance"
  /\ UNCHANGED <<cfg, baseBalance, skipBuyStep, cycle>>
  /\ UNCHANGED <<perCycleVars, guardVars, filesVars, calcVars, monVars, statVars, sizeVars, gwVars>>
  /\ lastError' = IF pc' = "catch" THEN "insufficient" ELSE lastError
  /\ UNCHANGED exitCode

\* lines 702-729: the quote balance check; <<buyAmount, thrown>>
quoteBalanceCheck(quote, amount) ==
  IF quote = 0 THEN <<amount, FALSE>>
  ELSE IF quote >= amount THEN <<amount, FALSE>>
  ELSE IF quote >= minimumOrderValue THEN <<toFixed2Quote(quote), FALSE>>
  ELSE <<amount, TRUE>>

flipPrevious(base, previous) == ~previous

\* lines 670-700: options.skipBuyStep after the base balance row (0: no row)
skipDecision(base, previous) ==
  IF base = 0 THEN previous ELSE ~(base < minBaseQuantity)

\* lines 661-730: the account balance check before the loop
CheckAccountBalance ==
  /\ pc = "balance"
  /\ IF ~cfg.skipBalanceCheck
       THEN \E r \in BalanceResults :
              IF ~r.ok
                THEN /\ pc' = "catch"
                     /\ lastError' = "command"
                     /\ quoteBalance' = QNull
                     /\ UNCHANGED <<baseBalance, skipBuyStep, buyAmount>>
                ELSE LET skip == skipDecision(r.base, skipBuyStep)
                         q == IF skip THEN <<buyAmount, FALSE>>
                              ELSE quoteBalanceCheck(r.quote, buyAmount)
                     IN  /\ baseBalance' = IF r.base = 0 THEN baseBalance ELSE QNum(r.base)
                         /\ skipBuyStep' = skip
                         /\ quoteBalance' = IF ~skip /\ r.quote # 0 THEN QNum(r.quote)
                                            ELSE QNull
                         /\ buyAmount' = q[1]
                         /\ pc' = IF q[2] THEN "catch" ELSE "cycle"
                         /\ lastError' = IF q[2] THEN "insufficient" ELSE lastError
       ELSE /\ pc' = "cycle"
            /\ quoteBalance' = QNull
            /\ UNCHANGED <<baseBalance, skipBuyStep, buyAmount, lastError>>
  /\ UNCHANGED <<cfg, dryRun, cycle>>
  /\ UNCHANGED <<perCycleVars, guardVars, filesVars, calcVars, monVars, statVars, sizeVars, gwVars>>
  /\ UNCHANGED exitCode

\* lines 734-782: the loop head, the balance refresh and the new tradeData
CycleHead ==
  /\ pc = "cycle"
  /\ cycle <= cfg.cycles
  /\ IF ~cfg.skipBalanceCheck
       THEN \E r \in BalanceResults :
              baseBalance' = IF r.ok /\ r.base # 0 THEN QNum(r.base) ELSE baseBalance
       ELSE UNCHANGED baseBalance
  /\ tradeData' = [cycle |-> cycle, status |-> "NONE", sold |-> FALSE]
  /\ sellOrder' = NoOrder
  /\ buyCommand' = NoBuy
  \* the locals of the previous iteration and of its supervision are gone
  /\ buyQuantity' = QNull
  /\ buyPrice' = 0
  /\ sellPrice' = 0
  /\ finalQuantity' = 0
  /\ highestPrice' = 0
  /\ orderStatus' = "NEW"
  /\ lastPoll' = NoPoll
  /\ pc' = "buy"
  /\ UNCHANGED <<cfg, dryRun, buyAmount, skipBuyStep, cycle>>
  /\ UNCHANGED <<filesVars, calcVars, monVars, statVars, sizeVars, gwVars>>
  /\ UNCHANGED lastError
  /\ UNCHANGED exitCode
  /\ quoteBalance' = QNull

\* exchange-info.js --price inside try/catch: the price read, or '20000'
PriceResults == MarketPrices \cup {fallbackPrice}

\* a purchase made with --confirm where a preview is due
confirmAlways(isDryRun) == "confirm"

\* lines 793-803: market-buy.js places the order only with --confirm
buyArgsMode(isDryRun) == IF isDryRun THEN "preview" ELSE "confirm"

\* lines 1167-1173: order-trade.js gets --dryRun or --confirm
sellArgsDryRun(isDryRun) == isDryRun

\* lines 784-877: step 1, the market buy or the reuse of the held balance
BuyStep ==
  /\ pc = "buy"
  /\ buyCommand' = IF skipBuyStep THEN buyCommand
                   ELSE [kind |-> buyArgsMode(dryRun), amount |-> buyAmount]
  /\ IF ~skipBuyStep
       THEN \/ /\ pc' = "catch"          \* market-buy.js exits with an error
               /\ UNCHANGED <<buyQuantity, buyPrice, baseBalance>>
            \/ /\ ~dryRun                \* --confirm: the summary of the fills is printed
               /\ \E p \in MarketPrices :
                    LET q == QStr(marketFill(buyAmount, p))
                    IN  /\ buyQuantity' = q
                        /\ buyPrice' = p
                        /\ baseBalance' = IF Truthy(baseBalance)
                                            THEN QStr(baseBalance.v + q.v)
                                            ELSE q
               /\ pc' = "size"
            \/ /\ dryRun                 \* a preview only: the fallback values
               /\ buyQuantity' = IF Truthy(baseBalance) THEN baseBalance
                                 ELSE QStr(fallbackQuantity)
               /\ \E p \in PriceResults : buyPrice' = p
               /\ UNCHANGED baseBalance
               /\ pc' = "size"
       ELSE /\ buyQuantity' = baseBalance
            /\ \E p \in PriceResults : buyPrice' = p
            /\ UNCHANGED baseBalance
            /\ pc' = "size"
  /\ UNCHANGED <<cfg, dryRun, buyAmount, skipBuyStep, cycle>>
  /\ UNCHANGED <<sellPrice, finalQuantity, tradeData, sellOrder>>
  /\ UNCHANGED <<guardVars, filesVars, calcVars, monVars, statVars, sizeVars, gwVars>>
  /\ lastError' = IF pc' = "catch" THEN "command" ELSE lastError
  /\ UNCHANGED exitCode
  /\ UNCHANGED quoteBalance

\* Math.ceil((minimumOrderValue * 1.01 / sellPrice) * 100000) / 100000, in micro units
minRequiredQuantity(aSellPrice) ==
  ((minimumOrderValue * 1010 + aSellPrice - 1) \div aSellPrice) * lotStep

unfloored(q) == q

\* Math.floor(quantity * 100000) / 100000, in micro units
floorToLot(q) == (q \div lotStep) * lotStep

\* parseFloat(sellPrice) * quantity < minimumOrderValue
belowMinimumNotional(aSellPrice, q) ==
  WLess(WMul(W(aSellPrice), W(q)), WMul(W(minimumOrderValue), W(10000)))

\* lines 897-921: <<roundedQuantity, finalQuantity, options.skipBuyStep>>
raiseToMinimum(rounded, minRequired, balance, isDryRun, skip) ==
  IF rounded < minRequired
    THEN IF Truthy(balance) /\ balance.v < minRequired
           THEN IF isDryRun
                  THEN <<minRequired, minRequired, skip>>
                  ELSE <<minRequired, rounded, FALSE>>
           ELSE <<minRequired, rounded, skip>>
    ELSE <<rounded, rounded, skip>>

\* lines 945-989 and 1033-1077: the supplementary purchase inside try/catch;
\* <<options.baseBalance, the loop returns>>
supplementaryBuy(balance, adjusted, r, buyOk, p) ==
  IF r.ok /\ r.quote # 0 /\ r.quote >= minimumOrderValue /\ buyOk
    THEN LET newBtc == marketFill(toFixed2Quote(r.quote), p)
             updated == QStr(balance.v + newBtc)
         IN  <<updated, updated.v >= adjusted>>
    ELSE <<balance, FALSE>>

\* lines 928-1105: the correction taken when the order value is below the minimum;
\* e is what the supplementary purchase commands answer
notionalCorrection(rounded, final, adjusted, balance, isDryRun, price, e) ==
  IF Truthy(balance) /\ balance.v < adjusted
    THEN IF ~isDryRun
           THEN LET b == supplementaryBuy(balance, adjusted, e.r, e.buyOk, e.p)
                IN  IF b[2]
                      THEN [final |-> adjusted, balance |-> b[1], dryRun |-> isDryRun,
                            exit |-> "return"]
                    ELSE IF cfg.forceDryRun
                      THEN [final |-> IF rounded < b[1].v THEN rounded ELSE b[1].v,
                            balance |-> b[1], dryRun |-> TRUE, exit |-> "none"]
                    ELSE [final |-> final, balance |-> b[1], dryRun |-> isDryRun,
                          exit |-> "throw"]
           ELSE [final |-> IF rounded < balance.v THEN rounded ELSE balance.v,
                 balance |-> balance, dryRun |-> isDryRun, exit |-> "none"]
    ELSE IF Truthy(balance)
      THEN LET capped == IF adjusted < balance.v THEN adjusted ELSE balance.v
           IN  IF capped < adjusted
                 THEN IF belowMinimumNotional(price, capped) /\ ~isDryRun
                        THEN LET b == supplementaryBuy(balance, adjusted, e.r, e.buyOk, e.p)
                             IN  IF b[2]
                                   THEN [final |-> adjusted, balance |-> b[1],
                                         dryRun |-> isDryRun, exit |-> "return"]
                                 ELSE IF cfg.forceDryRun
                                   THEN [final |-> capped, balance |-> b[1],
                                         dryRun |-> TRUE, exit |-> "none"]
                                 ELSE [final |-> capped, balance |-> b[1],
                                       dryRun |-> isDryRun, exit |-> "throw"]
                        ELSE [final |-> capped, balance |-> balance, dryRun |-> isDryRun,
                              exit |-> "none"]
                 ELSE [final |-> adjusted, balance |-> balance, dryRun |-> isDryRun,
                       exit |-> "none"]
    ELSE [final |-> adjusted, balance |-> balance, dryRun |-> isDryRun, exit |-> "none"]

SupplementaryResults ==
  [r : BalanceResults, buyOk : BOOLEAN, p : MarketPrices]

\* lines 879-1105: step 2, the sell price and the final quantity
SizeStep ==
  /\ pc = "size"
  /\ LET price == calculateProfitPrice(buyPrice, cfg.profitSettings, buyQuantity)
         minRequired == minRequiredQuantity(price)
         raised == raiseToMinimum(floorToLot(buyQuantity.v), minRequired, baseBalance,
                                  dryRun, skipBuyStep)
     IN  /\ sellPrice' = price
         /\ skipBuyStep' = raised[3]
         /\ IF belowMinimumNotional(price, raised[1])
              THEN \E e \in SupplementaryResults :
                     LET c == notionalCorrection(raised[1], raised[2], minRequired,
                                                 baseBalance, dryRun, price, e)
                     IN  /\ finalQuantity' = c.final
                         /\ baseBalance' = c.balance
                         /\ dryRun' = c.dryRun
                         /\ pc' = IF c.exit = "return" THEN "returned"
                                  ELSE IF c.exit = "throw" THEN "catch"
                                  ELSE "simulate"
              ELSE /\ finalQuantity' = raised[2]
                   /\ UNCHANGED <<baseBalance, dryRun>>
                   /\ pc' = "simulate"
  /\ UNCHANGED <<cfg, buyAmount, cycle, buyQuantity, buyPrice, tradeData, sellOrder>>
  /\ UNCHANGED buyCommand
  /\ UNCHANGED <<guardVars, filesVars, calcVars, monVars, statVars, sizeVars, gwVars>>
  /\ lastError' = IF pc' = "catch" THEN "insufficient" ELSE lastError
  /\ exitCode' = IF pc' = "returned" THEN 0 ELSE exitCode
  /\ UNCHANGED quoteBalance

\* lines 1107-1145: the profit print-out and order-simulation.js (logLevel normal)
ShowSimulation ==
  /\ pc = "simulate"
  /\ \E ok \in BOOLEAN : pc' = IF ok THEN "sell" ELSE "catch"
  /\ UNCHANGED <<cfg, dryRun, buyAmount, baseBalance, skipBuyStep, cycle>>
  /\ UNCHANGED <<perCycleVars, guardVars, filesVars, calcVars, monVars, statVars, sizeVars, gwVars>>
  /\ lastError' = IF pc' = "catch" THEN "command" ELSE lastError
  /\ UNCHANGED exitCode
  /\ UNCHANGED quoteBalance

\* order-trade.js: "ok" prints the order with its id; "noid" exits with code 0 and no
\* order id in the output; "fail" is createOrder rejected, process.exit(1)
SellResults == {"ok", "noid", "fail"}

\* lines 1147-1190 and 1234-1237: step 3, the limit sell order
SellStep ==
  /\ pc = "sell"
  /\ \E res \in SellResults :
       /\ dryRun => res = "ok"        \* --dryRun prints a simulated order
       /\ sellOrder' = [placed |-> TRUE, quantity |-> toFixed5(finalQuantity),
                        price |-> sellPrice, dryRun |-> sellArgsDryRun(dryRun),
                        response |-> IF res = "fail" THEN "rejected"
                                     ELSE IF res = "noid" THEN "noid"
                                     ELSE IF sellArgsDryRun(dryRun) THEN "simulated"
                                     ELSE "created"]
       /\ IF res = "fail"
            THEN /\ pc' = "catch"
                 /\ UNCHANGED tradeData
          ELSE IF res = "ok"
            THEN /\ tradeData' = [tradeData EXCEPT !.sold = TRUE]
                 /\ pc' = "monitor"
          ELSE /\ tradeData' = [tradeData EXCEPT !.status = "FAILED"]
               /\ pc' = "record"
  /\ UNCHANGED <<cfg, dryRun, buyAmount, baseBalance, skipBuyStep, cycle>>
  /\ UNCHANGED <<buyQuantity, buyPrice, sellPrice, finalQuantity, buyCommand>>
  /\ UNCHANGED <<guardVars, filesVars, calcVars, monVars, statVars, sizeVars, gwVars>>
  /\ lastError' = IF pc' = "catch" THEN "command" ELSE lastError
  /\ UNCHANGED exitCode
  /\ UNCHANGED quoteBalance

\* order-monitor.js as a child process: its output has the line "Status: FILLED" only
\* when its event handler saw the fill; an order already filled is printed by
\* displayOrder as "Status:       FILLED"; "ended" exits with code 0 after an error it
\* caught; "exit1" is process.exit(1); "hang" never exits
MonitorResults == {"filled_event", "already_filled", "ended", "exit1", "hang"}

\* monitorResult.stdout.match(/Status: FILLED/i) on the output of order-monitor.js
monitorFilledMatch(out) == out = "filled_event"

\* the same match on what monitorOrderWithPriceTracking returns: the output of
\* order.js ("Status:       FILLED") or "... Original status: <orderStatus>"
guardFilledMatch(fromCancel, status) == fromCancel /\ status = "FILLED"

\* lines 1192-1233: step 4, the choice of the supervision
StartMonitoring ==
  /\ pc = "monitor"
  /\ IF dryRun
       THEN /\ tradeData' = [tradeData EXCEPT !.status = "SIMULATED"]
            /\ pc' = "record"
            /\ UNCHANGED guardVars
     ELSE IF cfg.priceDropSettings.enabled
       THEN /\ highestPrice' = buyPrice
            /\ orderStatus' = "NEW"
            /\ lastPoll' = NoPoll
            /\ pc' = "poll"
            /\ UNCHANGED tradeData
     ELSE /\ \E out \in MonitorResults :
               IF out = "exit1"
                 THEN /\ pc' = "catch"
                      /\ UNCHANGED tradeData
               ELSE IF out = "hang"
                 THEN /\ pc' = "hung"
                      /\ UNCHANGED tradeData
               ELSE /\ tradeData' = [tradeData EXCEPT !.status =
                                       IF monitorFilledMatch(out) THEN "FILLED"
                                       ELSE "UNKNOWN"]
                    /\ pc' = "record"
          /\ UNCHANGED guardVars
  /\ UNCHANGED <<cfg, dryRun, buyAmount, baseBalance, skipBuyStep, cycle>>
  /\ UNCHANGED <<buyQuantity, buyPrice, sellPrice, finalQuantity, sellOrder, buyCommand>>
  /\ UNCHANGED <<filesVars, calcVars, monVars, statVars, sizeVars, gwVars>>
  /\ lastError' = IF pc' = "catch" THEN "command" ELSE lastError
  /\ UNCHANGED exitCode
  /\ UNCHANGED quoteBalance

\* the percentage threshold taken twice: a drop of 1.2% does not reach 1.0% this way
doubledPercentageThreshold(settings, highest, current) ==
  /\ settings.percentage > 0
  /\ WLeq(WMul(W(2 * settings.percentage), W(highest)),
          WMul(W(highest - current), W(10000)))

\* lines 279-291: the two thresholds
absoluteThresholdExceeded(settings, highest, current) ==
  settings.absolute > 0 /\ highest - current >= settings.absolute

percentageThresholdExceeded(settings, highest, current) ==
  /\ settings.percentage > 0
  /\ WLeq(WMul(W(settings.percentage), W(highest)),
          WMul(W(highest - current), W(10000)))

StatusResults == {"NEW", "FILLED", "CANCELED", "FAIL"}
PriceFailed == 0 - 1

\* lines 231-326: one iteration of the loop of monitorOrderWithPriceTracking, and
\* lines 1221-1229 when the loop ends
GuardPoll ==
  /\ pc = "poll"
  /\ \E st \in StatusResults, p \in GuardPrices \cup {PriceFailed}, cancelOk \in BOOLEAN :
       IF st = "FAIL"
         THEN /\ pc' = "catch"
              /\ UNCHANGED <<guardVars, tradeData>>
       ELSE IF st \in {"FILLED", "CANCELED"}
         THEN /\ orderStatus' = st
              /\ lastPoll' = [status |-> st, price |-> 0, peak |-> highestPrice,
                              cancel |-> FALSE, stopped |-> TRUE]
              /\ tradeData' = [tradeData EXCEPT !.status =
                                 IF guardFilledMatch(FALSE, st) THEN "FILLED" ELSE "UNKNOWN"]
              /\ pc' = "record"
              /\ UNCHANGED highestPrice
       ELSE IF p = PriceFailed
         THEN /\ orderStatus' = st
              /\ lastPoll' = [status |-> st, price |-> 0, peak |-> highestPrice,
                              cancel |-> FALSE, stopped |-> FALSE]
              /\ pc' = "poll"
              /\ UNCHANGED <<highestPrice, tradeData>>
       ELSE LET peak == IF p > highestPrice THEN p ELSE highestPrice
                exceeded ==
                  \/ absoluteThresholdExceeded(cfg.priceDropSettings, peak, p)
                  \/ percentageThresholdExceeded(cfg.priceDropSettings, peak, p)
            IN  /\ orderStatus' = st
                /\ highestPrice' = peak
                /\ lastPoll' = [status |-> st, price |-> p, peak |-> peak,
                                cancel |-> exceeded, stopped |-> exceeded /\ cancelOk]
                /\ IF exceeded /\ cancelOk
                     THEN /\ tradeData' = [tradeData EXCEPT !.status =
                                             IF guardFilledMatch(TRUE, st) THEN "FILLED"
                                             ELSE "UNKNOWN"]
                          /\ pc' = "record"
                     ELSE /\ pc' = "poll"
                          /\ UNCHANGED tradeData
  /\ UNCHANGED <<cfg, dryRun, buyAmount, baseBalance, skipBuyStep, cycle>>
  /\ UNCHANGED <<buyQuantity, buyPrice, sellPrice, finalQuantity, sellOrder, buyCommand>>
  /\ UNCHANGED <<filesVars, calcVars, monVars, statVars, sizeVars, gwVars>>
  /\ lastError' = IF pc' = "catch" THEN "command" ELSE lastError
  /\ UNCHANGED exitCode
  /\ UNCHANGED quoteBalance

\* fs.writeFileSync of the trade file, then of the statistics file
WriteResults == {"ok", "tradeFail", "statsFail"}

\* lines 1239-1240 with saveToHistory (332-348) and updateTradingStats (447-449)
RecordCycle ==
  /\ pc = "record"
  /\ \E w \in WriteResults :
       /\ history' = IF w = "tradeFail" THEN history ELSE Append(history, tradeData)
       /\ statsWrites' = IF w = "ok" THEN statsWrites + 1 ELSE statsWrites
       /\ pc' = IF w = "ok" THEN "after" ELSE "catch"
  /\ UNCHANGED errorRecords
  /\ UNCHANGED <<cfg, dryRun, buyAmount, baseBalance, skipBuyStep, cycle>>
  /\ UNCHANGED <<perCycleVars, guardVars, calcVars, monVars, statVars, sizeVars, gwVars>>
  /\ lastError' = IF pc' = "catch" THEN "write" ELSE lastError
  /\ UNCHANGED exitCode
  /\ UNCHANGED quoteBalance

breakBeforeLast(aCycle, maxCycles) == aCycle >= maxCycles

\* lines 1274-1277: if (cycle > maxCycles) break, the same test as the loop condition
loopEnds(aCycle, maxCycles) == aCycle > maxCycles

\* lines 1242-1285: the balance refresh after the trade, cycle++ and the delay
AfterTrade ==
  /\ pc = "after"
  /\ IF ~cfg.skipBalanceCheck
       THEN \E r \in BalanceResults :
              baseBalance' = IF r.ok /\ r.base # 0 THEN QStr(r.base) ELSE baseBalance
       ELSE UNCHANGED baseBalance
  /\ cycle' = cycle + 1
  /\ pc' = IF loopEnds(cycle + 1, cfg.cycles) THEN "completed" ELSE "cycle"
  /\ UNCHANGED <<cfg, dryRun, buyAmount, skipBuyStep>>
  /\ UNCHANGED <<perCycleVars, guardVars, filesVars, calcVars, monVars, statVars, sizeVars, gwVars>>
  /\ UNCHANGED lastError
  /\ exitCode' = IF pc' = "completed" THEN 0 ELSE exitCode
  /\ UNCHANGED quoteBalance

\* lines 1291-1310: the catch block of tradingLoop writes error_<timestamp>.json
CatchError ==
  /\ pc = "catch"
  /\ \E ok \in BOOLEAN : errorRecords' = IF ok THEN errorRecords + 1 ELSE errorRecords
  /\ pc' = "aborted"
  \* the block-scoped locals of the try block do not exist in the catch block
  /\ buyQuantity' = QNull
  /\ buyPrice' = 0
  /\ sellPrice' = 0
  /\ finalQuantity' = 0
  /\ tradeData' = NoTrade
  /\ highestPrice' = 0
  /\ orderStatus' = "NEW"
  /\ lastPoll' = NoPoll
  /\ sellOrder' = NoOrder
  /\ buyCommand' = NoBuy
  /\ UNCHANGED <<history, statsWrites>>
  /\ UNCHANGED <<cfg, dryRun, buyAmount, baseBalance, skipBuyStep, cycle>>
  /\ UNCHANGED <<calcVars, monVars, statVars, sizeVars, gwVars>>
  /\ UNCHANGED lastError
  \* lines 1314-1316: a rejection of tradingLoop() is logged; the process ends with
  \* code 0 whether the error file was written or not
  /\ exitCode' = 0
  /\ UNCHANGED quoteBalance

(***************************************************************************)
(* The cumulative statistics: updateTradingStats.  Amounts are integers in *)
(* units of 0.00000001 quote units (cents times micro units).  winRate is  *)
(* the exact ratio <<100 * successfulTrades, totalTrades>> at the time it  *)
(* was computed: the double (s / t) * 100 depends on the ratio alone.      *)
(***************************************************************************)
MaxRecords == 3

MaxRuns == 2

\* lines 356-368: let stats
EmptyStats ==
  [totalTrades |-> 0, successfulTrades |-> 0, failedTrades |-> 0, totalProfit |-> 0,
   totalLoss |-> 0, netProfit |-> 0, winRate |-> <<0, 1>>]

\* The tradeData objects tradingLoop hands to saveToHistory: buyPrice and quantity
\* from the buy step, sellPrice from line 1185 (0: the property is absent, as in a
\* cycle whose order id could not be extracted, status FAILED, line 1236).  The sell
\* price of a cycle is never below 1.015 times its buy price.
\* The status is the one set at lines 1225-1236: FILLED or UNKNOWN after the
\* monitor, SIMULATED in a dry run, FAILED without an order id.
RecordedTrades ==
  { [buyPrice |-> 10000, sellPrice |-> 10300, quantity |-> 500, status |-> "FILLED"],
    [buyPrice |-> 10000, sellPrice |-> 10150, quantity |-> 730, status |-> "FILLED"],
    [buyPrice |-> 10000, sellPrice |-> 10300, quantity |-> 500, status |-> "UNKNOWN"],
    [buyPrice |-> 10000, sellPrice |-> 10150, quantity |-> 500, status |-> "SIMULATED"],
    [buyPrice |-> 10000, sellPrice |-> 0, quantity |-> 500, status |-> "FAILED"] }

NoRecordedTrade == [buyPrice |-> 0, sellPrice |-> 0, quantity |-> 0, status |-> "NONE"]

ignoreExisting(files) == EmptyStats

\* lines 370-406: the most recent statistics file of the symbol, if there is one
loadStats(files) == IF files = <<>> THEN EmptyStats ELSE files[Len(files)]

rereadAtWrite(loaded, files) == loadStats(files)

\* lines 399-448: the object that is updated and written is the one loaded at line
\* 402, whatever the history directory holds by the time of the write at line 448
statsToUpdate(loaded, files) == loaded

\* lines 408-445: the update of the statistics with one trade
updatedStats(aStats, aTrade) ==
  LET counted == aTrade.sellPrice # 0 /\ aTrade.buyPrice # 0 /\ aTrade.quantity # 0
      profit == (aTrade.sellPrice - aTrade.buyPrice) * aTrade.quantity
      total == aStats.totalTrades + 1
      won == IF counted /\ profit > 0 THEN aStats.successfulTrades + 1
             ELSE aStats.successfulTrades
      lost == IF counted /\ ~(profit > 0) THEN aStats.failedTrades + 1
              ELSE aStats.failedTrades
      gain == IF counted /\ profit > 0 THEN aStats.totalProfit + profit
              ELSE aStats.totalProfit
      loss == IF counted /\ ~(profit > 0)
                THEN aStats.totalLoss + (IF profit < 0 THEN 0 - profit ELSE profit)
                ELSE aStats.totalLoss
  IN  [totalTrades |-> total, successfulTrades |-> won, failedTrades |-> lost,
       totalProfit |-> gain, totalLoss |-> loss,
       netProfit |-> IF counted THEN gain - loss ELSE aStats.netProfit,
       winRate |-> IF counted THEN <<100 * won, total>> ELSE aStats.winRate]

IdleWriter == [at |-> "idle", stats |-> EmptyStats, trade |-> NoRecordedTrade, seen |-> 0]

StatsIdle ==
  /\ runs = 1
  /\ statsFiles = <<>>
  /\ writer = [w \in 1 .. MaxRuns |-> IdleWriter]

(***************************************************************************)
(* The sizing decision as a function of what it reads: the balance check   *)
(* before the loop (lines 661-730), the quantity of the buy step (lines    *)
(* 788-857) and the final-quantity correction (lines 885-921).             *)
(***************************************************************************)
SizingBases == {0, 125, 600, 735}

SizingSellPrices == {1522500, 2030000, 8406509}

SizingFills == {120, 1000}

SizingInputs ==
  [base : SizingBases, quote : QuoteBalances, amount : {100000, 200000},
   sellPrice : SizingSellPrices, bought : SizingFills, dryRun : BOOLEAN]

NoSizing == [base |-> 0, quote |-> 0, amount |-> 100000, sellPrice |-> 2030000,
             bought |-> 1000, dryRun |-> FALSE]

\* previous is options.skipBuyStep as the caller left it
sizingResolver(in, previous) ==
  LET skip == skipDecision(in.base, previous)
      q == IF skip THEN <<in.amount, FALSE>> ELSE quoteBalanceCheck(in.quote, in.amount)
      held == IF in.base = 0 THEN QNull ELSE QNum(in.base)
      quantity == IF skip THEN in.base
                  ELSE IF in.dryRun THEN (IF Truthy(held) THEN in.base ELSE fallbackQuantity)
                  ELSE in.bought
      balance == IF skip \/ in.dryRun THEN held ELSE QStr(in.base + in.bought)
      raised == raiseToMinimum(floorToLot(quantity), minRequiredQuantity(in.sellPrice),
                               balance, in.dryRun, skip)
  IN  [skipBuy |-> raised[3], effectiveBuyAmount |-> q[1],
       finalQuantity |-> IF q[2] THEN 0 ELSE raised[2], thrown |-> q[2]]

SizeIdle ==
  /\ sizeIn = NoSizing
  /\ sizeOut = <<>>

(***************************************************************************)
(* The sell order on its way to the exchange: the stop-loss price of       *)
(* tradingLoop, the arguments of order-trade.js, orderParams of its main   *)
(* and the request of createOrder.  Prices and fixed stop-loss amounts are *)
(* in cents, stop-loss percentages in basis points.                        *)
(***************************************************************************)
NoStopLoss == [enabled |-> FALSE, type |-> "fixed", value |-> 0]

StopLossSettings ==
  {NoStopLoss} \cup [enabled : {TRUE}, type : {"fixed"}, value : {50, 50000}]
               \cup [enabled : {TRUE}, type : {"percent"}, value : {50, 200}]

SellInputs ==
  [buyPrice : {2000000, 8282275, 9500000}, stopLossSettings : StopLossSettings,
   quantity : {130, 730}, profitSettings : {[type |-> "fixed", value |-> 1],
                                             [type |-> "percent", value |-> 300]},
   dryRun : BOOLEAN]

NoSellInput ==
  [buyPrice |-> 2000000, stopLossSettings |-> NoStopLoss, quantity |-> 130,
   profitSettings |-> [type |-> "fixed", value |-> 1], dryRun |-> FALSE]

NoArgs == [quantity |-> QNull, price |-> QNull, stopPrice |-> QNull, dryRun |-> FALSE]

NoParams == [quantity |-> QNull, price |-> QNull, stopPrice |-> QNull, type |-> "none"]

NoRequest == [type |-> "none", quantity |-> QNull, price |-> QNull, stopPrice |-> QNull]

\* lines 202-219 of trading-loop.js
calculateStopLossPrice(aBuyPrice, settings) ==
  IF ~settings.enabled THEN QNull
  ELSE IF settings.type = "fixed" THEN QStr(aBuyPrice - settings.value)
  ELSE IF settings.type = "percent"
    THEN QStr(toFixed2(Frac(WMul(W(aBuyPrice), W(10000 - settings.value)), W(10000))))
  ELSE QNull

\* lines 1149-1173 of trading-loop.js: sellArgs
buildSellArgs(in) ==
  [quantity |-> QStr(toFixed5(in.quantity)),
   price |-> QStr(calculateProfitPrice(in.buyPrice, in.profitSettings, QStr(in.quantity))),
   stopPrice |-> IF in.stopLossSettings.enabled
                   THEN calculateStopLossPrice(in.buyPrice, in.stopLossSettings)
                   ELSE QNull,
   dryRun |-> in.dryRun]

typeFromPrices(args) ==
  IF Truthy(args.stopPrice) /\ Truthy(args.price) THEN "STOP_LOSS_LIMIT"
  ELSE IF Truthy(args.stopPrice) THEN "STOP_LOSS"
  ELSE IF Truthy(args.price) THEN "LIMIT" ELSE "MARKET"

\* line 362 of order-trade.js: type: args.market ? 'MARKET' : (args.price ? 'LIMIT' :
\* 'MARKET'); tradingLoop never passes --market
typeOfMain(args) == IF Truthy(args.price) THEN "LIMIT" ELSE "MARKET"

\* lines 354-363 of order-trade.js: orderParams
mainOrderParams(args) ==
  [quantity |-> args.quantity, price |-> args.price, stopPrice |-> args.stopPrice,
   type |-> typeOfMain(args)]

\* lines 75-99 of order-trade.js: the order type and the query of createOrder
createOrderRequest(params) ==
  LET orderType == IF params.type # "none" THEN params.type
                   ELSE typeFromPrices(params)
      isStop == orderType \in {"STOP_LOSS", "STOP_LOSS_LIMIT", "TAKE_PROFIT",
                               "TAKE_PROFIT_LIMIT"}
      isLimit == orderType \in {"LIMIT", "STOP_LOSS_LIMIT", "TAKE_PROFIT_LIMIT"}
  IN  [type |-> orderType,
       quantity |-> params.quantity,
       price |-> IF isLimit /\ Truthy(params.price) THEN params.price ELSE QNull,
       stopPrice |-> IF Truthy(params.stopPrice) /\ isStop THEN params.stopPrice
                     ELSE QNull]

GatewayIdle ==
  /\ gpc = "idle"
  /\ sellIn = NoSellInput
  /\ sellArgs = NoArgs
  /\ orderParams = NoParams
  /\ orderRequest = NoRequest

CalcIdle == calcIn = [buyPrice |-> 1, profitSettings |-> [type |-> "fixed", value |-> 1],
                      quantity |-> QNull] /\ calcOut = NoPrice

LoopInit ==
  /\ cfg \in Configs
  /\ pc = "start"
  /\ dryRun = cfg.dryRun
  /\ buyAmount = cfg.buyAmount
  /\ baseBalance = QNull
  /\ skipBuyStep = FALSE
  /\ cycle = 1
  /\ buyQuantity = QNull
  /\ buyPrice = 0
  /\ sellPrice = 0
  /\ finalQuantity = 0
  /\ tradeData = NoTrade
  /\ sellOrder = NoOrder
  /\ buyCommand = NoBuy
  /\ highestPrice = 0
  /\ orderStatus = "NEW"
  /\ lastPoll = NoPoll
  /\ history = <<>>
  /\ statsWrites = 0
  /\ errorRecords = 0
  /\ lastError = "none"
  /\ exitCode = NoExit
  /\ quoteBalance = QNull

LoopIdle ==
  /\ cfg = CHOOSE c \in Configs : TRUE
  /\ pc = "idle"
  /\ dryRun = FALSE
  /\ buyAmount = 0
  /\ baseBalance = QNull
  /\ skipBuyStep = FALSE
  /\ cycle = 1
  /\ buyQuantity = QNull
  /\ buyPrice = 0
  /\ sellPrice = 0
  /\ finalQuantity = 0
  /\ tradeData = NoTrade
  /\ sellOrder = NoOrder
  /\ buyCommand = NoBuy
  /\ highestPrice = 0
  /\ orderStatus = "NEW"
  /\ lastPoll = NoPoll
  /\ history = <<>>
  /\ statsWrites = 0
  /\ errorRecords = 0
  /\ lastError = "none"
  /\ exitCode = NoExit
  /\ quoteBalance = QNull

MonIdle ==
  /\ order = [status |-> "NEW", executed |-> 0]
  /\ mpc = "idle"
  /\ lastStatus = "NONE"
  /\ lastExecutedQty = 0
  /\ sockets = <<>>
  /\ ws = 0
  /\ listenKey = 0
  /\ keepAliveInterval = FALSE
  /\ keepAlive = "idle"
  /\ reconnecting = FALSE
  /\ reconnectAttempts = 0
  /\ lastEvent = NoEvent

Init ==
  LoopInit /\ CalcIdle /\ MonIdle /\ StatsIdle /\ SizeIdle /\ GatewayIdle

Next ==
  \/ MinimumBuyAmountCheck
  \/ CheckAccountBalance
  \/ CycleHead
  \/ BuyStep
  \/ SizeStep
  \/ ShowSimulation
  \/ SellStep
  \/ StartMonitoring
  \/ GuardPoll
  \/ RecordCycle
  \/ AfterTrade
  \/ CatchError

Spec == Init /\ [][Next]_vars

(***************************************************************************)
(* Inputs of the pricing specification.                                    *)
(***************************************************************************)
MaxSmallPrice == 4     \* buy prices 0.01 .. 0.04 besides the listed ones

BuyPrices == (1 .. MaxSmallPrice) \cup {140, 2000000, 8282275, 9500000}

ProfitSpecs ==
  [type : {"fixed"}, value : {1, 1000, 500000}] \cup
  [type : {"percent"}, value : {50, 150, 300, 490, 500, 1000}]

Quantities ==
  {QNull, QNum(0), QStr(0), QStr(10), QStr(120), QNum(730), QStr(1000000)}

CalcInit ==
  /\ calcIn \in [buyPrice : BuyPrices, profitSettings : ProfitSpecs, quantity : Quantities]
  /\ calcOut = NoPrice
  /\ LoopIdle
  /\ MonIdle
  /\ StatsIdle
  /\ SizeIdle
  /\ GatewayIdle

CalcApply ==
  /\ calcOut = NoPrice
  /\ calcOut' = calculateProfitPrice(calcIn.buyPrice, calcIn.profitSettings, calcIn.quantity)
  /\ UNCHANGED calcIn
  /\ UNCHANGED <<loopVars, monVars, statVars, sizeVars, gwVars>>

CalcNext == CalcApply

SpecPrice == CalcInit /\ [][CalcNext]_vars

(***************************************************************************)
(* order-monitor.js: monitorOrderStatus.  The function body runs to its    *)
(* end and leaves a timer and socket handlers behind; each callback is an  *)
(* action, and a callback that awaits is split at the await.  The exchange *)
(* moves the order and reports every move to the sockets that are open.    *)
(***************************************************************************)
maxReconnectAttempts == 5

MaxSockets == 3        \* sockets created in one run of the monitor

OrderStates ==
  {[status |-> "NEW", executed |-> 0], [status |-> "PARTIALLY_FILLED", executed |-> 1],
   [status |-> "FILLED", executed |-> 2], [status |-> "CANCELED", executed |-> 0],
   [status |-> "CANCELED", executed |-> 1]}

\* the life of an order on the exchange
NextOrderStates(o) ==
  IF o.status = "NEW"
    THEN {[status |-> "PARTIALLY_FILLED", executed |-> 1],
          [status |-> "FILLED", executed |-> 2], [status |-> "CANCELED", executed |-> 0]}
  ELSE IF o.status = "PARTIALLY_FILLED"
    THEN {[status |-> "FILLED", executed |-> 2], [status |-> "CANCELED", executed |-> 1]}
  ELSE {}

\* new WebSocket(`.../ws/${listenKey}`): creator is "initial" (line 719, with the
\* reconnecting close handler of line 727), "reconnect" (line 746, with the open
\* handler of line 750) or "keepAlive" (line 627)
NewSocket(creator, key) == [state |-> "connecting", creator |-> creator, key |-> key]

Live(sock) == sock.state \in {"connecting", "open"}

monIdleVars == <<calcVars, loopVars, statVars, sizeVars, gwVars>>

\* lines 588-606 and 715-724: the body of monitorOrderStatus
MonitorStart ==
  /\ mpc = "start"
  /\ \E fetched \in BOOLEAN, keyOk \in BOOLEAN :
       IF ~fetched \/ order.status = "FILLED" \/ ~keyOk
         THEN /\ mpc' = "returned"
              /\ UNCHANGED <<lastStatus, lastExecutedQty, sockets, ws, listenKey,
                             keepAliveInterval>>
         ELSE /\ listenKey' = 1
              /\ keepAliveInterval' = TRUE
              /\ lastStatus' = order.status
              /\ lastExecutedQty' = order.executed
              /\ sockets' = <<NewSocket("initial", 1)>>
              /\ ws' = 1
              /\ mpc' = "running"
  /\ UNCHANGED <<order, keepAlive, reconnecting, reconnectAttempts, monIdleVars, lastEvent>>

\* an execution report of the monitored order
OwnReport(o) == [e |-> "executionReport", i |-> "ours", c |-> "ours", s |-> "ours",
                 status |-> o.status, executed |-> o.executed]

\* an account update, a report of another order of the symbol, and a report of the
\* order of another symbol that has the same order id
ForeignEvents ==
  { [e |-> k[1], i |-> k[2], c |-> "other", s |-> k[3],
     status |-> o.status, executed |-> o.executed] :
      k \in {<<"outboundAccountPosition", "other", "ours">>,
             <<"executionReport", "other", "ours">>,
             <<"executionReport", "ours", "other">>},
      o \in {[status |-> "PARTIALLY_FILLED", executed |-> 1],
             [status |-> "FILLED", executed |-> 2]} }

anyExecutionReport(event) == event.e = "executionReport"

\* lines 651-653: is this an execution report for our order
matchesOrder(event) ==
  event.e = "executionReport" /\ (event.i = "ours" \/ event.c = "ours") /\ event.s = "ours"

\* lines 647-693: the message handler of socket i
onMessage(i, event) ==
  /\ lastEvent' = event
  /\ IF matchesOrder(event)
          /\ (event.status # lastStatus \/ event.executed # lastExecutedQty)
       THEN /\ lastStatus' = event.status
            /\ lastExecutedQty' = event.executed
            /\ IF event.status = "FILLED"
                 THEN /\ sockets' = [sockets EXCEPT ![i].state = "closing"]
                      /\ keepAliveInterval' = FALSE
                 ELSE UNCHANGED <<sockets, keepAliveInterval>>
       ELSE UNCHANGED <<lastStatus, lastExecutedQty, sockets, keepAliveInterval>>

\* the exchange moves the order; an open socket, if there is one, gets the report
ExchangeUpdate ==
  /\ mpc \in {"start", "running"}
  /\ \E o \in NextOrderStates(order) :
       /\ order' = o
       /\ LET open == {i \in 1 .. Len(sockets) : sockets[i].state = "open"}
          IN  IF open = {}
                THEN UNCHANGED <<lastStatus, lastExecutedQty, sockets, keepAliveInterval,
                                 lastEvent>>
                ELSE \E i \in open : onMessage(i, OwnReport(o))
  /\ UNCHANGED <<mpc, ws, listenKey, keepAlive, reconnecting, reconnectAttempts>>
  /\ UNCHANGED monIdleVars

\* an open socket gets a message that is not about the monitored order
ForeignEvent ==
  /\ mpc = "running"
  /\ \E i \in 1 .. Len(sockets), ev \in ForeignEvents :
       /\ sockets[i].state = "open"
       /\ onMessage(i, ev)
  /\ UNCHANGED <<order, mpc, ws, listenKey, keepAlive, reconnecting, reconnectAttempts>>
  /\ UNCHANGED monIdleVars

\* lines 641-645 and 750-752: the open handlers
SocketOpen ==
  /\ \E i \in 1 .. Len(sockets) :
       /\ sockets[i].state = "connecting"
       /\ sockets' = [sockets EXCEPT ![i].state = "open"]
       /\ reconnectAttempts' = IF sockets[i].creator = "reconnect" THEN 0
                               ELSE reconnectAttempts
  /\ UNCHANGED <<order, mpc, lastStatus, lastExecutedQty, ws, listenKey,
                 keepAliveInterval, keepAlive, reconnecting, monIdleVars, lastEvent>>

\* lines 700-702 and 727-739: a socket closes, after close() or because the
\* connection was lost; only the first socket has the handler of line 727
SocketClose ==
  /\ \E i \in 1 .. Len(sockets) :
       /\ sockets[i].state # "closed"
       /\ sockets' = [sockets EXCEPT ![i].state = "closed"]
       /\ IF sockets[i].creator = "initial"
            THEN IF reconnectAttempts >= maxReconnectAttempts \/ lastStatus = "FILLED"
                   THEN /\ keepAliveInterval' = FALSE
                        /\ UNCHANGED <<reconnectAttempts, reconnecting>>
                   ELSE /\ reconnectAttempts' = reconnectAttempts + 1
                        /\ reconnecting' = TRUE
                        /\ UNCHANGED keepAliveInterval
            ELSE UNCHANGED <<keepAliveInterval, reconnectAttempts, reconnecting>>
  /\ UNCHANGED <<order, mpc, lastStatus, lastExecutedQty, ws, listenKey, keepAlive>>
  /\ UNCHANGED <<monIdleVars, lastEvent>>

\* lines 741-755: getListenKey answers inside the close handler
ReconnectResult ==
  /\ reconnecting
  /\ reconnecting' = FALSE
  /\ \/ /\ Len(sockets) < MaxSockets
        /\ listenKey' = listenKey + 1
        /\ sockets' = Append(sockets, NewSocket("reconnect", listenKey + 1))
        /\ ws' = Len(sockets) + 1
     \/ UNCHANGED <<listenKey, sockets, ws>>       \* 'Failed to reconnect'
  /\ UNCHANGED <<order, mpc, lastStatus, lastExecutedQty, keepAliveInterval, keepAlive,
                 reconnectAttempts, monIdleVars, lastEvent>>

\* line 609-610: the timer fires and the callback awaits keepAliveListenKey
KeepAliveFire ==
  /\ keepAliveInterval
  /\ keepAlive = "idle"
  /\ keepAlive' = "keepAlive"
  /\ UNCHANGED <<order, mpc, lastStatus, lastExecutedQty, sockets, ws, listenKey,
                 keepAliveInterval, reconnecting, reconnectAttempts, monIdleVars, lastEvent>>

\* lines 610-615: keepAliveListenKey answers; on failure the callback awaits getListenKey
KeepAliveResult ==
  /\ keepAlive = "keepAlive"
  /\ \E success \in BOOLEAN : keepAlive' = IF success THEN "idle" ELSE "getListenKey"
  /\ UNCHANGED <<order, mpc, lastStatus, lastExecutedQty, sockets, ws, listenKey,
                 keepAliveInterval, reconnecting, reconnectAttempts, monIdleVars, lastEvent>>

\* lines 615-632: getListenKey answers inside the keep-alive callback
KeepAliveNewKey ==
  /\ keepAlive = "getListenKey"
  /\ keepAlive' = "idle"
  /\ \/ /\ Len(sockets) < MaxSockets
        /\ listenKey' = listenKey + 1
        /\ sockets' = Append(IF sockets[ws].state = "open"
                               THEN [sockets EXCEPT ![ws].state = "closing"]
                               ELSE sockets,
                             NewSocket("keepAlive", listenKey + 1))
        /\ ws' = Len(sockets) + 1
        /\ UNCHANGED keepAliveInterval
     \/ /\ keepAliveInterval' = FALSE              \* 'Failed to get a new listen key'
        /\ UNCHANGED <<listenKey, sockets, ws>>
  /\ UNCHANGED <<order, mpc, lastStatus, lastExecutedQty, reconnecting,
                 reconnectAttempts, monIdleVars, lastEvent>>

MonInit ==
  /\ order \in {o \in OrderStates : o.status # "CANCELED" \/ o.executed = 0}
  /\ mpc = "start"
  /\ lastStatus = "NONE"
  /\ lastExecutedQty = 0
  /\ sockets = <<>>
  /\ ws = 0
  /\ listenKey = 0
  /\ keepAliveInterval = FALSE
  /\ keepAlive = "idle"
  /\ reconnecting = FALSE
  /\ reconnectAttempts = 0
  /\ lastEvent = NoEvent
  /\ CalcIdle
  /\ LoopIdle
  /\ StatsIdle
  /\ SizeIdle
  /\ GatewayIdle

MonNext ==
  \/ MonitorStart
  \/ ExchangeUpdate
  \/ ForeignEvent
  \/ SocketOpen
  \/ SocketClose
  \/ ReconnectResult
  \/ KeepAliveFire
  \/ KeepAliveResult
  \/ KeepAliveNewKey

SpecMonitor == MonInit /\ [][MonNext]_vars

(***************************************************************************)
(* Specification of the statistics files: one or more trading runs of the  *)
(* same symbol, each a node process of its own, call saveToHistory once    *)
(* per cycle.  Nothing orders the file system calls of different runs.     *)
(***************************************************************************)
inFlight == Cardinality({w \in 1 .. MaxRuns : writer[w].at = "loaded"})

\* lines 370-406: readdirSync, statSync and readFileSync of the latest statistics
ReadLatestStats(w) ==
  /\ w <= runs
  /\ writer[w].at = "idle"
  /\ Len(statsFiles) + inFlight < MaxRecords
  /\ \E t \in RecordedTrades :
       writer' = [writer EXCEPT ![w] = [at |-> "loaded", stats |-> loadStats(statsFiles),
                                        trade |-> t, seen |-> Len(statsFiles)]]
  /\ UNCHANGED <<runs, statsFiles>>
  /\ UNCHANGED <<calcVars, loopVars, monVars, sizeVars, gwVars>>

\* lines 408-448: the update and writeFileSync of a new trading_stats_<timestamp>.json
WriteNewStats(w) ==
  /\ w <= runs
  /\ writer[w].at = "loaded"
  /\ statsFiles' = Append(statsFiles,
                          updatedStats(statsToUpdate(writer[w].stats, statsFiles),
                                       writer[w].trade))
  /\ writer' = [writer EXCEPT ![w] = IdleWriter]
  /\ UNCHANGED runs
  /\ UNCHANGED <<calcVars, loopVars, monVars, sizeVars, gwVars>>

StatsInit ==
  /\ runs \in 1 .. MaxRuns
  /\ statsFiles = <<>>
  /\ writer = [w \in 1 .. MaxRuns |-> IdleWriter]
  /\ CalcIdle
  /\ LoopIdle
  /\ MonIdle
  /\ SizeIdle
  /\ GatewayIdle

StatsNext ==
  \/ \E w \in 1 .. MaxRuns : ReadLatestStats(w)
  \/ \E w \in 1 .. MaxRuns : WriteNewStats(w)

SpecStats == StatsInit /\ [][StatsNext]_vars

(***************************************************************************)
(* Specification of the sizing decision: it is taken twice on the same     *)
(* balances, amounts and flags; options.skipBuyStep is what the first      *)
(* decision left behind.                                                   *)
(***************************************************************************)
SizingApply ==
  /\ Len(sizeOut) < 2
  /\ sizeOut' = Append(sizeOut,
                       sizingResolver(sizeIn, IF sizeOut = <<>> THEN FALSE
                                              ELSE sizeOut[Len(sizeOut)].skipBuy))
  /\ UNCHANGED sizeIn
  /\ UNCHANGED <<calcVars, loopVars, monVars, statVars, gwVars>>

SizingInit ==
  /\ sizeIn \in SizingInputs
  /\ sizeOut = <<>>
  /\ CalcIdle
  /\ LoopIdle
  /\ MonIdle
  /\ StatsIdle
  /\ GatewayIdle

SizingNext == SizingApply

SpecSizing == SizingInit /\ [][SizingNext]_vars

(***************************************************************************)
(* Specification of the sell order on its way to the exchange.             *)
(***************************************************************************)
gwIdleVars == <<calcVars, loopVars, monVars, statVars, sizeVars>>

\* trading-loop.js lines 883 and 1149-1175: step 3 runs order-trade.js
RunOrderTrade ==
  /\ gpc = "orchestrator"
  /\ sellArgs' = buildSellArgs(sellIn)
  /\ gpc' = "main"
  /\ UNCHANGED <<sellIn, orderParams, orderRequest, gwIdleVars>>

\* order-trade.js lines 354-363: main prepares the order parameters
PrepareOrderParams ==
  /\ gpc = "main"
  /\ orderParams' = mainOrderParams(sellArgs)
  /\ gpc' = IF sellArgs.dryRun THEN "simulated" ELSE "createOrder"
  /\ UNCHANGED <<sellIn, sellArgs, orderRequest, gwIdleVars>>

\* order-trade.js lines 64-115: createOrder posts the request
PostOrder ==
  /\ gpc = "createOrder"
  /\ orderRequest' = createOrderRequest(orderParams)
  /\ gpc' = "posted"
  /\ UNCHANGED <<sellIn, sellArgs, orderParams, gwIdleVars>>

GatewayInit ==
  /\ gpc = "orchestrator"
  /\ sellIn \in SellInputs
  /\ sellArgs = NoArgs
  /\ orderParams = NoParams
  /\ orderRequest = NoRequest
  /\ CalcIdle
  /\ LoopIdle
  /\ MonIdle
  /\ StatsIdle
  /\ SizeIdle

GatewayNext ==
  \/ RunOrderTrade
  \/ PrepareOrderParams
  \/ PostOrder

SpecGateway == GatewayInit /\ [][GatewayNext]_vars


(***************************************************************************)
(* Bounds on the sell price.  Prices are in cents, so x * 1.05 <= y reads  *)
(* 1050 * x <= 1000 * y, and half a cent is 500 on that scale.             *)
(***************************************************************************)
calcDone == calcOut # NoPrice

fixedWithQuantity == calcIn.profitSettings.type = "fixed" /\ Truthy(calcIn.quantity)

fixedWithoutQuantity == calcIn.profitSettings.type = "fixed" /\ ~Truthy(calcIn.quantity)

FloorAsStated ==
  (calcDone /\ Truthy(calcIn.quantity) /\ calcIn.quantity.v > 0
            /\ calcIn.profitSettings.value > 0) =>
    WLeq(WMul(W(1015), W(calcIn.buyPrice)), WMul(W(1000), W(calcOut)))

\* C2 amended: for a positive quantity and a positive profit value the returned sell
\* price is at least buyPrice * 1.015 rounded to the cent, so at most half a cent less
FloorWithRounding ==
  (calcDone /\ Truthy(calcIn.quantity) /\ calcIn.quantity.v > 0
            /\ calcIn.profitSettings.value > 0) =>
    WLeq(WMul(W(1015), W(calcIn.buyPrice)), WAdd(WMul(W(1000), W(calcOut)), W(500)))

\* a fixed profit of 0.001 on 0.00012 at 82822.75: the raw price 82988.57 is raised to
\* the floor 84065.091125, returned as 84065.09
FloorClampReached ==
  /\ calcDone
  /\ calcIn = [buyPrice |-> 8282275, profitSettings |-> [type |-> "fixed", value |-> 1],
               quantity |-> QStr(120)]
  /\ calcOut = 8406509

(***************************************************************************)
(* The sell order and the failures of a cycle.                             *)
(***************************************************************************)
\* C3: in a cycle that is not a dry run and whose tracked base balance is at least
\* ceil(10 * 1.01 / sellPrice) in lots, the quantity of the sell order that is placed
\* times the sell price is at least the minimum notional 10
MinimumNotionalCompliance ==
  (/\ pc \in {"monitor", "poll", "record"}
   /\ sellOrder.placed
   /\ ~sellOrder.dryRun
   /\ Truthy(baseBalance)
   /\ baseBalance.v >= minRequiredQuantity(sellOrder.price))
  => ~belowMinimumNotional(sellOrder.price, sellOrder.quantity)

\* C4: when order-trade.js gives no order (it is rejected, or prints no order id) the
\* cycle goes on to its history record with status FAILED; the run is not aborted
SellFailureRecorded ==
  [][(pc = "sell" /\ ~tradeData'.sold) =>
       (pc' = "record" /\ tradeData'.status = "FAILED")]_vars

\* C5: no poll of the price drop guard takes the run to its catch block: an error
\* of the supervision (a failed order status fetch) ends the supervision only, and
\* the cycle goes on to its history record with status FAILED or UNKNOWN
SupervisionErrorContained ==
  [][(pc = "poll" /\ pc' # "poll") =>
       (pc' = "record" /\ tradeData'.status \in {"FAILED", "UNKNOWN"})]_vars

\* C6: whatever the writes of the trade file and of the statistics file answer, the
\* run goes on after the record of a cycle
PersistenceErrorContained ==
  [][(pc = "record") => (pc' = "after")]_vars

(***************************************************************************)
(* The price drop guard.                                                   *)
(***************************************************************************)
\* a step of the guard loop in which the status read is neither FILLED nor CANCELED
\* and a price is read
pricedPoll == pc = "poll" /\ pc' # "catch" /\ lastPoll'.price # 0

\* the maximum of the reference price and of all the prices read so far, this one
\* included: highestPrice holds the maximum before this poll
runningPeak == IF lastPoll'.price > highestPrice THEN lastPoll'.price ELSE highestPrice

\* the drop from the running peak reaches a positive threshold
dropReachesThreshold ==
  LET drop == runningPeak - lastPoll'.price
  IN  \/ cfg.priceDropSettings.absolute > 0 /\ drop >= cfg.priceDropSettings.absolute
      \/ /\ cfg.priceDropSettings.percentage > 0
         /\ WLeq(WMul(W(cfg.priceDropSettings.percentage), W(runningPeak)),
                 WMul(W(drop), W(10000)))

\* C10 as stated: in such a poll the loop issues a cancel and stops polling if and
\* only if the drop from the running peak reaches a threshold
CancelAndStopIffDrop ==
  [][pricedPoll => ((lastPoll'.cancel /\ pc' # "poll") <=> dropReachesThreshold)]_vars

\* C10 amended: in such a poll the loop issues a cancel if and only if the drop from
\* the running peak reaches a threshold; it stops polling if and only if that cancel
\* command succeeds, and polls again when it fails
CancelIffDropStopIffCancelled ==
  [][pricedPoll =>
       /\ highestPrice' = runningPeak
       /\ lastPoll'.cancel <=> dropReachesThreshold
       /\ lastPoll'.stopped => lastPoll'.cancel
       /\ (pc' # "poll") <=> lastPoll'.stopped]_vars

\* percentage threshold 1.0 and no absolute one, peak 83000, price 82000: cancelled
GuardTriggered ==
  /\ cfg.priceDropSettings = [enabled |-> TRUE, absolute |-> 0, percentage |-> 100]
  /\ lastPoll = [status |-> "NEW", price |-> 8200000, peak |-> 8300000, cancel |-> TRUE,
                 stopped |-> TRUE]
  /\ pc = "record"

(***************************************************************************)
(* The event-driven monitor.                                               *)
(***************************************************************************)
\* no callback of the monitor is in flight
monitorQuiet == mpc = "running" /\ keepAlive = "idle" /\ ~reconnecting

someSocketLive == \E i \in 1 .. Len(sockets) : Live(sockets[i])

\* C7: once the monitor has seen the order FILLED or CANCELED it makes no further
\* transition for it: no status update, no reconnect, no new socket
NoTransitionAfterTerminal ==
  [][(lastStatus \in {"FILLED", "CANCELED"}) =>
       /\ lastStatus' = lastStatus
       /\ Len(sockets') = Len(sockets)
       /\ reconnecting' => reconnecting]_vars

\* C8: the keep-alive timer and the subscription are torn down together: with no
\* callback in flight, the timer is scheduled exactly when a socket is live
TornDownTogether ==
  monitorQuiet => (keepAliveInterval <=> someSocketLive)

\* a socket closes and leaves the monitor without a live one
subscriptionLost ==
  /\ Len(sockets') = Len(sockets)
  /\ \E i \in 1 .. Len(sockets) : sockets[i].state # "closed" /\ sockets'[i].state = "closed"
  /\ \A i \in 1 .. Len(sockets) : ~Live(sockets'[i])

\* C9: when the subscription is lost while the order is not filled and fewer than
\* maxReconnectAttempts consecutive attempts were made, the monitor starts a
\* reconnect with a new listen key
ReconnectsWithinBudget ==
  [][(/\ subscriptionLost
      /\ keepAlive = "idle"
      /\ lastStatus # "FILLED"
      /\ reconnectAttempts < maxReconnectAttempts) => reconnecting']_vars

ForceDryRunAvoidsAbort ==
  cfg.forceDryRun => lastError # "insufficient"

\* C13: a run that was aborted by an error has written its error record and ends with
\* a non-zero exit code
AbortRecordedAndNonZero ==
  pc = "aborted" => (errorRecords = 1 /\ exitCode # NoExit /\ exitCode # 0)

(***************************************************************************)
(* The cycle loop.                                                         *)
(***************************************************************************)
inCycleStep == pc \in {"buy", "size", "simulate", "sell", "monitor", "poll"}

\* C14: a run with maxCycles = N that meets no fatal error runs the cycles 1..N in
\* increasing order and one at a time: the history holds the records of the cycles
\* 1..k-1, in this order and one each, whenever a buy, sell or supervision step of
\* cycle k is under way, and the records of 1..N when the run has completed
CyclesInOrderOneRecordEach ==
  /\ [](/\ \A k \in 1 .. Len(history) : history[k].cycle = k
        /\ inCycleStep => (cycle <= cfg.cycles /\ Len(history) = cycle - 1)
        /\ pc = "completed" => (cycle = cfg.cycles + 1 /\ Len(history) = cfg.cycles))
  /\ [][/\ cycle' \in {cycle, cycle + 1}
        /\ Len(history') \in {Len(history), Len(history) + 1}
        /\ Len(history') = Len(history) + 1 => (pc = "record" /\ ~inCycleStep')]_vars

AllCyclesCompleted ==
  /\ pc = "completed" /\ cfg.cycles = MaxCycles /\ Len(history) = MaxCycles
  /\ history[MaxCycles].cycle = MaxCycles

(***************************************************************************)
(* The statistics files.                                                   *)
(***************************************************************************)
latestStats == statsFiles[Len(statsFiles)]

\* C15: with a single run recording cycles of the symbol from an empty history, the
\* latest statistics record after N calls has totalTrades = N, and every statistics
\* record written has netProfit = totalProfit - totalLoss
SingleWriterCountsEveryTrade ==
  /\ (runs = 1 /\ statsFiles # <<>>) => latestStats.totalTrades = Len(statsFiles)
  /\ \A k \in 1 .. Len(statsFiles) :
       statsFiles[k].netProfit = statsFiles[k].totalProfit - statsFiles[k].totalLoss

SingleWriterAllRecorded ==
  /\ runs = 1 /\ Len(statsFiles) = MaxRecords
  /\ latestStats.totalTrades = MaxRecords
  /\ latestStats.netProfit > 0

\* C16: in every statistics record written, winRate is successfulTrades / totalTrades
\* times 100, also after cycles that were recorded without a sell price
WinRateIsShareOfTrades ==
  \A k \in 1 .. Len(statsFiles) :
    statsFiles[k].winRate[1] * statsFiles[k].totalTrades
      = 100 * statsFiles[k].successfulTrades * statsFiles[k].winRate[2]

writes(w) ==
  /\ writer[w].at = "loaded" /\ writer'[w].at = "idle"
  /\ Len(statsFiles') = Len(statsFiles) + 1

\* C17: two runs recording cycles of the same symbol can lose an update: a run that
\* writes its statistics after another record was written since it read the latest
\* one leaves a latest record whose totalTrades is below the number of cycles recorded
StaleWriteLosesUpdate ==
  [][\A w \in 1 .. MaxRuns :
       (writes(w) /\ writer[w].seen < Len(statsFiles))
         => statsFiles'[Len(statsFiles')].totalTrades < Len(statsFiles')]_vars

UpdateLost ==
  /\ runs = 2 /\ Len(statsFiles) = 2
  /\ \A w \in 1 .. MaxRuns : writer[w].at = "idle"
  /\ latestStats.totalTrades < 2

(***************************************************************************)
(* The buy step and the buy amount.                                        *)
(***************************************************************************)
heldBaseBalance == IF Truthy(baseBalance) THEN baseBalance.v ELSE 0

\* C18: the buy step of a cycle is skipped if and only if the held base balance
\* exceeds the minimum viable trade quantity 0.0005; a skipped buy step uses the held
\* balance as the quantity and runs no purchase command
BuySkippedIffBaseHeld ==
  [][pc = "buy" =>
       /\ skipBuyStep <=> heldBaseBalance > minBaseQuantity
       /\ skipBuyStep => (buyQuantity' = baseBalance /\ buyCommand'.kind = "none")]_vars

\* C19: the buy amount passed to market-buy.js is never larger than the requested
\* amount, except that a request below the minimum notional 10 is raised to 10, and
\* only when the available quote balance is at least 10; a quote balance below the
\* requested amount lowers the buy amount to that balance
BuyAmountWithinRequestAndBalance ==
  [][/\ pc = "start" /\ buyAmount' > buyAmount
          => /\ buyAmount < minimumOrderValue /\ buyAmount' = minimumOrderValue
             /\ Truthy(quoteBalance') /\ quoteBalance'.v >= minimumOrderValue
     /\ pc = "balance"
          => /\ buyAmount' <= buyAmount
             /\ (pc' = "cycle" /\ Truthy(quoteBalance') /\ quoteBalance'.v < buyAmount)
                  => buyAmount' = quoteBalance'.v
     /\ pc \notin {"start", "balance"} => buyAmount' = buyAmount
     /\ (pc = "buy" /\ buyCommand'.kind # "none") => buyCommand'.amount = buyAmount]_vars

(***************************************************************************)
(* The percent profit.  Rates are in basis points: 1 + r + 0.001 reads     *)
(* (10000 + r + 10) / 10000 and 1 - 0.001 reads 999 / 1000.                *)
(***************************************************************************)
percentProfit == calcIn.profitSettings.type = "percent"

fixedRaw ==
  Frac(WAdd(WMul(WMul(W(calcIn.buyPrice), W(calcIn.quantity.v)), W(1001)),
            WMul(W(calcIn.profitSettings.value), W(100000000))),
       WMul(W(calcIn.quantity.v), W(999)))

fixedFloor == Frac(WMul(W(calcIn.buyPrice), W(1015)), W(1000))

fixedCeiling == Frac(WMul(W(calcIn.buyPrice), W(1050)), W(1000))

fixedClamped ==
  IF FracLess(fixedRaw, fixedFloor) THEN fixedFloor
  ELSE IF FracLess(fixedCeiling, fixedRaw) THEN fixedCeiling
  ELSE fixedRaw

\* C21: for a fixed profit amount a and a quantity q > 0 the returned sell price is
\* (buyPrice * q * 1.001 + a) / (q * 0.999) clamped into [buyPrice * 1.015,
\* buyPrice * 1.05] and rounded to the nearest cent; for buy price 82822.75,
\* q = 0.00012 and a = 0.001 the unclamped value is below the floor and the result
\* is the floor, 84065.09
FixedPriceClampedRounded ==
  (calcDone /\ fixedWithQuantity /\ calcIn.quantity.v > 0) =>
    LET twiceOutD == WMul(W(2), WMul(W(calcOut), fixedClamped[2]))
        twiceN == WMul(W(2), fixedClamped[1])
    IN  /\ WLeq(twiceOutD, WAdd(twiceN, fixedClamped[2]))
        /\ WLess(twiceN, WAdd(twiceOutD, fixedClamped[2]))
        /\ (calcIn.buyPrice = 8282275 /\ calcIn.quantity.v = 120
              /\ calcIn.profitSettings.value = 1)
             => (FracLess(fixedRaw, fixedFloor) /\ calcOut = 8406509)

FixedBelowFloorReturned ==
  /\ calcDone /\ fixedWithQuantity
  /\ calcIn.buyPrice = 8282275 /\ calcIn.quantity = QStr(120)
  /\ calcIn.profitSettings.value = 1
  /\ FracLess(fixedRaw, fixedFloor)
  /\ calcOut = 8406509

(***************************************************************************)
(* The quantity of the sell order.                                         *)
(***************************************************************************)
\* C22: the quantity submitted in every sell order is an exact multiple of the lot
\* step 0.00001, in every cycle and on every path through the quantity correction;
\* it is the final quantity itself, from which the formatting to five decimals
\* rounds nothing off
SellQuantityMultipleOfLot ==
  sellOrder.placed =>
    /\ sellOrder.quantity % lotStep = 0
    /\ sellOrder.quantity = finalQuantity

FlooredQuantitySubmitted ==
  /\ sellOrder.placed /\ skipBuyStep
  /\ buyQuantity.v % lotStep # 0
  /\ sellOrder.quantity = (buyQuantity.v \div lotStep) * lotStep

trackedChanges == lastStatus' # lastStatus \/ lastExecutedQty' # lastExecutedQty

\* C24: while the monitor runs, the tracked order state (last status and executed
\* quantity) changes only on an execution report whose order id or client order id,
\* and whose symbol, are those of the monitored order, and takes the values of that
\* report; every other event leaves it unchanged; a partial fill updates the executed
\* quantity and closes nothing
TrackedStateFollowsOwnReports ==
  [][mpc = "running" =>
       /\ trackedChanges =>
            /\ lastEvent'.e = "executionReport" /\ lastEvent'.s = "ours"
            /\ (lastEvent'.i = "ours" \/ lastEvent'.c = "ours")
            /\ lastStatus' = lastEvent'.status
            /\ lastExecutedQty' = lastEvent'.executed
       /\ (trackedChanges /\ lastStatus' = "PARTIALLY_FILLED") =>
            /\ lastExecutedQty' = order'.executed
            /\ UNCHANGED <<sockets, keepAliveInterval, mpc>>]_vars

ForeignFillIgnored ==
  /\ mpc = "running"
  /\ lastStatus = "PARTIALLY_FILLED" /\ lastExecutedQty = 1
  /\ lastEvent \in ForeignEvents /\ lastEvent.status = "FILLED"
  /\ keepAliveInterval
  /\ \E i \in 1 .. Len(sockets) : sockets[i].state = "open"

(***************************************************************************)
(* The buy-or-reuse decision of a cycle.                                   *)
(***************************************************************************)
\* C25: the buy-or-reuse decision is taken anew in each cycle: in a cycle whose
\* balance refresh read a new base balance, the buy step is skipped only if that
\* balance is at least the minimum viable trade quantity
SkipDecidedFromRefreshedBalance ==
  [][(pc = "cycle" /\ pc' = "buy" /\ baseBalance' # baseBalance /\ skipBuyStep')
        => baseBalance'.v >= minBaseQuantity]_vars

(***************************************************************************)
(* The status of the history record.                                       *)
(***************************************************************************)
\* C26: the status recorded for a supervised cycle is the terminal state supervision
\* reached: FILLED when the order was seen filled, CANCELED when the order was
\* cancelled or the price-drop guard cancelled it, FAILED otherwise; it is always
\* one of FILLED, CANCELED and FAILED
RecordedStatusIsTerminalState ==
  (pc = "record" /\ ~dryRun) =>
    /\ tradeData.status \in {"FILLED", "CANCELED", "FAILED"}
    /\ (lastPoll.stopped /\ orderStatus = "FILLED" /\ ~lastPoll.cancel)
         => tradeData.status = "FILLED"
    /\ (lastPoll.stopped /\ (orderStatus = "CANCELED" \/ lastPoll.cancel))
         => tradeData.status = "CANCELED"

\* C27: a cancel event of the monitored order is terminal: on an execution report
\* with status CANCELED the handler closes the subscription and clears the heartbeat,
\* as it does on FILLED, so that the monitor ends
CancelEventEndsMonitor ==
  [][(mpc = "running" /\ lastStatus # "CANCELED" /\ lastStatus' = "CANCELED")
        => /\ ~keepAliveInterval'
           /\ \E i \in 1 .. Len(sockets) :
                sockets[i].state = "open" /\ sockets'[i].state = "closing"]_vars

(***************************************************************************)
(* The stop-loss price of the sell order.                                  *)
(***************************************************************************)
\* C28: with stop-loss enabled, the sell order request that reaches the exchange
\* carries the computed stop-loss price: buyPrice minus the fixed amount, or
\* buyPrice * (1 - percent / 100); the stop price is not dropped on the way
StopPriceReachesExchange ==
  (gpc = "posted" /\ sellIn.stopLossSettings.enabled) =>
    /\ orderRequest.stopPrice.kind = "str"
    /\ sellIn.stopLossSettings.type = "fixed"
         => orderRequest.stopPrice.v = sellIn.buyPrice - sellIn.stopLossSettings.value
    /\ sellIn.stopLossSettings.type = "percent"
         => LET n == WMul(W(2), WMul(W(sellIn.buyPrice),
                                     W(10000 - sellIn.stopLossSettings.value)))
            IN  /\ WLeq(WMul(W(20000), W(orderRequest.stopPrice.v)), WAdd(n, W(10000)))
                /\ WLess(n, WAdd(WMul(W(20000), W(orderRequest.stopPrice.v)), W(10000)))

(***************************************************************************)
(* The sockets of the monitor.                                             *)
(***************************************************************************)
openSockets == {i \in 1 .. Len(sockets) : sockets[i].state = "open"}

\* C29: at most one subscription socket is open at any time, however the keep-alive
\* callback and the close handler interleave; so once the FILLED event of the order
\* has been handled no socket is open
AtMostOneSocketOpen ==
  /\ Cardinality(openSockets) <= 1
  /\ lastStatus = "FILLED" /\ mpc = "running" => openSockets = {}

\* C30: a statistics write for a cycle whose recorded status is not FILLED (UNKNOWN,
\* SIMULATED or FAILED) leaves successfulTrades and totalProfit as they were loaded
OnlyFilledCyclesCount ==
  [][\A w \in 1 .. MaxRuns :
       (/\ writer[w].at = "loaded"
        /\ writer'[w].at = "idle"
        /\ writer[w].trade.status # "FILLED")
       => LET written == statsFiles'[Len(statsFiles')]
          IN  /\ written.successfulTrades = writer[w].stats.successfulTrades
              /\ written.totalProfit = writer[w].stats.totalProfit]_vars

====
